---- MODULE Spec2Model ----
(***************************************************************************)
(* fsm-generator: a Moore-machine engine.  The repository holds two        *)
(* versions of the class FiniteStateMachine:                               *)
(*   - the stateful one (src/unnamed/part_000, the one the test suite      *)
(*     src/unnamed/part_001 drives): transition(input) moves currentState; *)
(*   - the stateless one (src/src/index.ts, compiled to src/index.js):     *)
(*     transition(currentState, input) is a pure query.                    *)
(* Both are modelled.  Definitions of the stateless version carry the      *)
(* suffix Fn (its tables are called transitionFunction / outputFunction).  *)
(*                                                                         *)
(* State names, symbols and inputs are JavaScript strings and are modelled *)
(* as TLA+ strings; a JavaScript value of unknown type (an output, a       *)
(* returned value) is a record [t |-> type, v |-> text].                   *)
(***************************************************************************)
EXTENDS Integers, Sequences, FiniteSets, TLC

VARIABLES
    config,  \* the FSMConfig handed to the constructors
    fsm,     \* the stateful FiniteStateMachine object (part_000)
    fn,      \* the stateless FiniteStateMachine object (src/src/index.ts)
    res      \* what the last call did: operation, arguments, outcome

vars == <<config, fsm, fn, res>>

(***************************************************************************)
(* JavaScript values                                                       *)
(***************************************************************************)
Str(s) == [t |-> "string", v |-> s]
Num(s) == [t |-> "number", v |-> s]
Bool(b) == [t |-> "boolean", v |-> IF b THEN "true" ELSE "false"]
Undefined == [t |-> "undefined", v |-> ""]
Null == [t |-> "null", v |-> ""]

\* ToBoolean: what `if (x)` and `x || y` test.
Truthy(x) ==
    CASE x.t = "string" -> x.v # ""
      [] x.t = "number" -> x.v # "0"
      [] x.t = "boolean" -> x.v = "true"
      [] OTHER -> FALSE

\* `x || null`
OrNull(x) == IF Truthy(x) THEN x ELSE Null

\* `x !== undefined ? x : null`
UndefinedToNull(x) == IF x # Undefined THEN x ELSE Null

\* The code points `for (const symbol of input)` yields, in order.
CharAt(input, i) == SubSeq(input, i, i)

(***************************************************************************)
(* JavaScript Set and Map: both keep insertion order, so a Set is the      *)
(* sequence of its distinct elements and a Map the sequence of its         *)
(* entries [k, v]; setting an existing key keeps the entry's position.     *)
(***************************************************************************)
Has(s, x) == \E i \in 1..Len(s) : s[i] = x

SetAdd(s, x) == IF Has(s, x) THEN s ELSE Append(s, x)

RECURSIVE SetFrom(_, _)
SetFrom(acc, seq) ==
    IF seq = <<>> THEN acc ELSE SetFrom(SetAdd(acc, Head(seq)), Tail(seq))

\* new Set(iterable)
NewSet(seq) == SetFrom(<<>>, seq)

MapHas(m, k) == \E i \in 1..Len(m) : m[i].k = k

MapGet(m, k) ==
    IF MapHas(m, k) THEN m[CHOOSE i \in 1..Len(m) : m[i].k = k].v ELSE Undefined

MapSet(m, k, val) ==
    IF MapHas(m, k)
    THEN [i \in 1..Len(m) |-> IF m[i].k = k THEN [k |-> k, v |-> val] ELSE m[i]]
    ELSE Append(m, [k |-> k, v |-> val])

RECURSIVE MapFrom(_, _)
MapFrom(acc, pairs) ==
    IF pairs = <<>> THEN acc
    ELSE MapFrom(MapSet(acc, Head(pairs)[1], Head(pairs)[2]), Tail(pairs))

\* new Map(entries)
NewMap(pairs) == MapFrom(<<>>, pairs)

(***************************************************************************)
(* Errors.  A call either returns or throws one of three kinds; arg is the *)
(* text the error was constructed with.                                    *)
(***************************************************************************)
NoError == [kind |-> "none", arg |-> ""]
InvalidStateError(state) == [kind |-> "InvalidStateError", arg |-> state]
InvalidSymbolError(symbol) == [kind |-> "InvalidSymbolError", arg |-> symbol]
\* throw new Error(`No transition defined for state ${state} with input ${symbol}`)
NoTransitionError(state, symbol) ==
    [kind |-> "Error",
     arg |-> "No transition defined for state " \o state \o " with input " \o symbol]

\* The composite key `${state},${input}` of both transition tables.
Key(state, input) == state \o "," \o input

(***************************************************************************)
(* The stateful class (src/unnamed/part_000)                               *)
(***************************************************************************)
isValidState(o, state) == Has(o.states, state)

isValidSymbol(o, symbol) == Has(o.alphabet, symbol)

\* Index of the first state of seq that is not declared, 0 when all are.
FirstInvalidState(o, seq) ==
    IF \E i \in 1..Len(seq) : ~isValidState(o, seq[i])
    THEN CHOOSE i \in 1..Len(seq) :
            /\ ~isValidState(o, seq[i])
            /\ \A j \in 1..(i - 1) : isValidState(o, seq[j])
    ELSE 0

OutputStates(outputs) == [i \in 1..Len(outputs) |-> outputs[i][1]]

\* A plausible slip: validateStates without the check of the initial state.
validateStates_NoInitialCheck(o, cfg) ==
    LET a == FirstInvalidState(o, cfg.acceptingStates)
        p == FirstInvalidState(o, OutputStates(cfg.outputs))
    IN  IF a # 0 THEN InvalidStateError(cfg.acceptingStates[a])
        ELSE IF p # 0 THEN InvalidStateError(cfg.outputs[p][1])
        ELSE NoError

\* A plausible slip: validateStates without the loop over the outputs.
validateStates_NoOutputCheck(o, cfg) ==
    LET a == FirstInvalidState(o, cfg.acceptingStates)
    IN  IF ~isValidState(o, o.initialState) THEN InvalidStateError(o.initialState)
        ELSE IF a # 0 THEN InvalidStateError(cfg.acceptingStates[a])
        ELSE NoError

\* validateStates: initial state, then accepting states, then output states.
validateStates(o, cfg) ==
    LET a == FirstInvalidState(o, cfg.acceptingStates)
        p == FirstInvalidState(o, OutputStates(cfg.outputs))
    IN  IF ~isValidState(o, o.initialState) THEN InvalidStateError(o.initialState)
        ELSE IF a # 0 THEN InvalidStateError(cfg.acceptingStates[a])
        ELSE IF p # 0 THEN InvalidStateError(cfg.outputs[p][1])
        ELSE NoError

\* buildTransitionMap: the loop over the triples; stops at the first throw.
RECURSIVE buildTransitionMap(_, _, _)
buildTransitionMap(o, map, transitions) ==
    IF transitions = <<>> THEN [err |-> NoError, map |-> map]
    ELSE LET fromState == Head(transitions)[1]
             input == Head(transitions)[2]
             toState == Head(transitions)[3]
         IN  IF ~isValidState(o, fromState) \/ ~isValidState(o, toState)
             THEN [err |-> InvalidStateError(
                              IF isValidState(o, fromState) THEN toState ELSE fromState),
                   map |-> map]
             ELSE IF ~isValidSymbol(o, input)
             THEN [err |-> InvalidSymbolError(input), map |-> map]
             ELSE buildTransitionMap(
                      o, MapSet(map, Key(fromState, input), Str(toState)),
                      Tail(transitions))

\* The fields the constructor assigns before it validates.
Fields(cfg) ==
    [states |-> NewSet(cfg.states),
     alphabet |-> NewSet(cfg.alphabet),
     initialState |-> cfg.initialState,
     currentState |-> cfg.initialState,
     acceptingStates |-> NewSet(cfg.acceptingStates),
     transitionMap |-> <<>>,
     outputMap |-> NewMap(cfg.outputs)]

\* No object: before `new`, and after a constructor that threw.
NoObject(err) ==
    [live |-> FALSE, err |-> err,
     states |-> <<>>, alphabet |-> <<>>, initialState |-> "", currentState |-> "",
     acceptingStates |-> <<>>, transitionMap |-> <<>>, outputMap |-> <<>>]

Object(o) ==
    [live |-> TRUE, err |-> NoError,
     states |-> o.states, alphabet |-> o.alphabet, initialState |-> o.initialState,
     currentState |-> o.currentState, acceptingStates |-> o.acceptingStates,
     transitionMap |-> o.transitionMap, outputMap |-> o.outputMap]

\* new FiniteStateMachine(config) of part_000
constructor(cfg) ==
    LET o == Fields(cfg)
        v == validateStates(o, cfg)
        b == buildTransitionMap(o, <<>>, cfg.transitions)
    IN  IF v # NoError THEN NoObject(v)
        ELSE IF b.err # NoError THEN NoObject(b.err)
        ELSE Object([o EXCEPT !.transitionMap = b.map])

\* What a call hands back: the object afterwards, the error thrown (NoError when
\* it returned) and the value returned (Undefined when it threw or returns void).
Returned(o, ret) == [o |-> o, err |-> NoError, ret |-> ret]
Thrown(o, err) == [o |-> o, err |-> err, ret |-> Undefined]

\* A plausible slip: transition without the check of the symbol.
transition_NoSymbolCheck(o, input) ==
    LET nextState == MapGet(o.transitionMap, Key(o.currentState, input))
    IN  Returned(IF Truthy(nextState)
                    THEN [o EXCEPT !.currentState = nextState.v]
                    ELSE o,
                 OrNull(nextState))

\* transition(input): moves currentState when the table has a truthy entry.
transition(o, input) ==
    IF ~isValidSymbol(o, input) THEN Thrown(o, InvalidSymbolError(input))
    ELSE LET nextState == MapGet(o.transitionMap, Key(o.currentState, input))
         IN  Returned(IF Truthy(nextState)
                         THEN [o EXCEPT !.currentState = nextState.v]
                         ELSE o,
                      OrNull(nextState))

isInAcceptingState(o) == Has(o.acceptingStates, o.currentState)

getOutput(o) == MapGet(o.outputMap, o.currentState)

getCurrentState(o) == o.currentState

\* A plausible slip: reset leaves the machine where it is.
reset_KeepsState(o) == o

\* A plausible slip: reset also forgets the outputs.
reset_ClearsOutputs(o) == [o EXCEPT !.currentState = o.initialState, !.outputMap = <<>>]

reset(o) == [o EXCEPT !.currentState = o.initialState]

\* A ProcessResult; NoResult when process threw.
NoResult == [accepted |-> Undefined, output |-> Undefined, finalState |-> Undefined]

\* A plausible slip: `output || null` in place of the test against undefined.
getProcessResult_FalsyToNull(o) ==
    LET output == getOutput(o)
    IN  [accepted |-> Bool(isInAcceptingState(o)),
         output |-> OrNull(output),
         finalState |-> Str(o.currentState)]

getProcessResult(o) ==
    LET output == getOutput(o)
    IN  [accepted |-> Bool(isInAcceptingState(o)),
         output |-> UndefinedToNull(output),
         finalState |-> Str(o.currentState)]

\* A plausible slip: the loop ends as soon as the machine is on an accepting
\* state.
RECURSIVE processLoop_StopsWhenAccepting(_, _, _, _)
processLoop_StopsWhenAccepting(o, input, i, trace) ==
    IF i > Len(input) \/ isInAcceptingState(o)
    THEN [o |-> o, err |-> NoError, trace |-> trace]
    ELSE LET symbol == CharAt(input, i)
             t == transition(o, symbol)
         IN  IF t.err # NoError THEN [o |-> t.o, err |-> t.err, trace |-> trace]
             ELSE IF t.ret = Null
             THEN [o |-> t.o,
                   err |-> NoTransitionError(t.o.currentState, symbol),
                   trace |-> trace]
             ELSE processLoop_StopsWhenAccepting(t.o, input, i + 1,
                                                 Append(trace, t.o.currentState))

\* The loop of process from the i-th code point on.  trace lists currentState
\* before the first symbol and after each symbol consumed.
RECURSIVE processLoop(_, _, _, _)
processLoop(o, input, i, trace) ==
    IF i > Len(input) THEN [o |-> o, err |-> NoError, trace |-> trace]
    ELSE LET symbol == CharAt(input, i)
             t == transition(o, symbol)
         IN  IF t.err # NoError THEN [o |-> t.o, err |-> t.err, trace |-> trace]
             ELSE IF t.ret = Null
             THEN [o |-> t.o,
                   err |-> NoTransitionError(t.o.currentState, symbol),
                   trace |-> trace]
             ELSE processLoop(t.o, input, i + 1, Append(trace, t.o.currentState))

\* A plausible slip: process reports where it stopped instead of throwing when
\* a symbol has no transition.
process_ReturnsPartial(o, input) ==
    LET r == processLoop(reset(o), input, 1, <<reset(o).currentState>>)
    IN  [o |-> r.o,
         err |-> IF r.err.kind = "Error" THEN NoError ELSE r.err,
         trace |-> r.trace,
         result |-> IF r.err.kind \in {"none", "Error"}
                       THEN getProcessResult(r.o) ELSE NoResult]

\* A plausible slip: process puts the machine back on its initial state once
\* the result is taken.
process_ResetsAfter(o, input) ==
    LET r == processLoop(reset(o), input, 1, <<reset(o).currentState>>)
    IN  [o |-> reset(r.o), err |-> r.err, trace |-> r.trace,
         result |-> IF r.err = NoError THEN getProcessResult(r.o) ELSE NoResult]

\* A plausible slip: process puts the machine back on its initial state when
\* it fails.
process_ResetsOnFailure(o, input) ==
    LET r == processLoop(reset(o), input, 1, <<reset(o).currentState>>)
    IN  [o |-> IF r.err = NoError THEN r.o ELSE reset(r.o),
         err |-> r.err, trace |-> r.trace,
         result |-> IF r.err = NoError THEN getProcessResult(r.o) ELSE NoResult]

\* A plausible slip: process starts from the current state, without reset.
process_NoReset(o, input) ==
    LET r == processLoop(o, input, 1, <<o.currentState>>)
    IN  [o |-> r.o, err |-> r.err, trace |-> r.trace,
         result |-> IF r.err = NoError THEN getProcessResult(r.o) ELSE NoResult]

\* process(input): reset, consume every code point, report.
process(o, input) ==
    LET r == processLoop(reset(o), input, 1, <<reset(o).currentState>>)
    IN  [o |-> r.o, err |-> r.err, trace |-> r.trace,
         result |-> IF r.err = NoError THEN getProcessResult(r.o) ELSE NoResult]

(***************************************************************************)
(* The stateless class (src/src/index.ts, compiled to src/index.js)        *)
(***************************************************************************)
isValidStateFn(o, state) == Has(o.states, state)

isValidSymbolFn(o, symbol) == Has(o.alphabet, symbol)

FirstInvalidStateFn(o, seq) ==
    IF \E i \in 1..Len(seq) : ~isValidStateFn(o, seq[i])
    THEN CHOOSE i \in 1..Len(seq) :
            /\ ~isValidStateFn(o, seq[i])
            /\ \A j \in 1..(i - 1) : isValidStateFn(o, seq[j])
    ELSE 0

\* The constructor's loop over config.transitions.
RECURSIVE buildTransitionFunction(_, _, _)
buildTransitionFunction(o, map, transitions) ==
    IF transitions = <<>> THEN [err |-> NoError, map |-> map]
    ELSE LET fromState == Head(transitions)[1]
             input == Head(transitions)[2]
             toState == Head(transitions)[3]
         IN  IF ~isValidStateFn(o, fromState) \/ ~isValidStateFn(o, toState)
             THEN [err |-> InvalidStateError(fromState \o " or " \o toState),
                   map |-> map]
             ELSE IF ~isValidSymbolFn(o, input)
             THEN [err |-> InvalidSymbolError(input), map |-> map]
             ELSE buildTransitionFunction(
                      o, MapSet(map, Key(fromState, input), Str(toState)),
                      Tail(transitions))

FieldsFn(cfg) ==
    [states |-> NewSet(cfg.states),
     alphabet |-> NewSet(cfg.alphabet),
     initialState |-> cfg.initialState,
     currentState |-> cfg.initialState,
     acceptingStates |-> NewSet(cfg.acceptingStates),
     transitionFunction |-> <<>>,
     outputFunction |-> NewMap(cfg.outputs)]

NoObjectFn(err) ==
    [live |-> FALSE, err |-> err,
     states |-> <<>>, alphabet |-> <<>>, initialState |-> "", currentState |-> "",
     acceptingStates |-> <<>>, transitionFunction |-> <<>>, outputFunction |-> <<>>]

ObjectFn(o) ==
    [live |-> TRUE, err |-> NoError,
     states |-> o.states, alphabet |-> o.alphabet, initialState |-> o.initialState,
     currentState |-> o.currentState, acceptingStates |-> o.acceptingStates,
     transitionFunction |-> o.transitionFunction, outputFunction |-> o.outputFunction]

\* new FiniteStateMachine(config) of src/src/index.ts: initial state, accepting
\* states, transitions, output states.
constructorFn(cfg) ==
    LET o == FieldsFn(cfg)
        a == FirstInvalidStateFn(o, cfg.acceptingStates)
        b == buildTransitionFunction(o, <<>>, cfg.transitions)
        p == FirstInvalidStateFn(o, OutputStates(cfg.outputs))
    IN  IF ~isValidStateFn(o, o.initialState)
        THEN NoObjectFn(InvalidStateError(o.initialState))
        ELSE IF a # 0 THEN NoObjectFn(InvalidStateError(cfg.acceptingStates[a]))
        ELSE IF b.err # NoError THEN NoObjectFn(b.err)
        ELSE IF p # 0 THEN NoObjectFn(InvalidStateError(cfg.outputs[p][1]))
        ELSE ObjectFn([o EXCEPT !.transitionFunction = b.map])

\* A plausible slip: the two checks of transition in the other order.
transitionFn_SymbolFirst(o, currentState, input) ==
    IF ~isValidSymbolFn(o, input)
    THEN Thrown(o, InvalidSymbolError(input))
    ELSE IF ~isValidStateFn(o, currentState)
    THEN Thrown(o, InvalidStateError(currentState))
    ELSE Returned(o, OrNull(MapGet(o.transitionFunction, Key(currentState, input))))

\* A plausible slip: the stateless transition moves the machine, as the stateful
\* one does.
transitionFn_Moves(o, currentState, input) ==
    IF ~isValidStateFn(o, currentState)
    THEN Thrown(o, InvalidStateError(currentState))
    ELSE IF ~isValidSymbolFn(o, input)
    THEN Thrown(o, InvalidSymbolError(input))
    ELSE LET nextState == MapGet(o.transitionFunction, Key(currentState, input))
         IN  Returned(IF Truthy(nextState)
                         THEN [o EXCEPT !.currentState = nextState.v]
                         ELSE o,
                      OrNull(nextState))

\* A plausible slip: the stateless transition returns what Map.get gives,
\* without `|| null`.
transitionFn_NoNull(o, currentState, input) ==
    IF ~isValidStateFn(o, currentState)
    THEN Thrown(o, InvalidStateError(currentState))
    ELSE IF ~isValidSymbolFn(o, input)
    THEN Thrown(o, InvalidSymbolError(input))
    ELSE Returned(o, MapGet(o.transitionFunction, Key(currentState, input)))

\* transition(currentState, input): a query; the object is not changed.
transitionFn(o, currentState, input) ==
    IF ~isValidStateFn(o, currentState)
    THEN Thrown(o, InvalidStateError(currentState))
    ELSE IF ~isValidSymbolFn(o, input)
    THEN Thrown(o, InvalidSymbolError(input))
    ELSE Returned(o, OrNull(MapGet(o.transitionFunction, Key(currentState, input))))

\* A plausible slip: isAcceptingState without the check of its argument.
isAcceptingState_NoCheck(o, state) ==
    Returned(o, Bool(Has(o.acceptingStates, state)))

isAcceptingState(o, state) ==
    IF ~isValidStateFn(o, state) THEN Thrown(o, InvalidStateError(state))
    ELSE Returned(o, Bool(Has(o.acceptingStates, state)))

getOutputFn(o, state) ==
    IF ~isValidStateFn(o, state) THEN Thrown(o, InvalidStateError(state))
    ELSE Returned(o, MapGet(o.outputFunction, state))

RECURSIVE processLoopFn(_, _, _, _)
processLoopFn(o, input, i, trace) ==
    IF i > Len(input) THEN [o |-> o, err |-> NoError, trace |-> trace]
    ELSE LET symbol == CharAt(input, i)
             t == transitionFn(o, o.currentState, symbol)
         IN  IF ~isValidSymbolFn(o, symbol)
             THEN [o |-> o, err |-> InvalidSymbolError(symbol), trace |-> trace]
             ELSE IF t.err # NoError THEN [o |-> o, err |-> t.err, trace |-> trace]
             ELSE IF t.ret = Null
             THEN [o |-> o,
                   err |-> NoTransitionError(o.currentState, symbol),
                   trace |-> trace]
             ELSE processLoopFn([o EXCEPT !.currentState = t.ret.v], input, i + 1,
                                Append(trace, t.ret.v))

\* A plausible slip: process starts from the current state, without setting it
\* to the initial state.
processFn_NoReset(o, input) ==
    LET start == o
        r == processLoopFn(start, input, 1, <<start.currentState>>)
        output == getOutputFn(r.o, r.o.currentState)
        accepted == isAcceptingState(r.o, r.o.currentState)
    IN  IF r.err # NoError
        THEN [o |-> r.o, err |-> r.err, trace |-> r.trace, result |-> NoResult]
        ELSE IF output.err # NoError
        THEN [o |-> r.o, err |-> output.err, trace |-> r.trace, result |-> NoResult]
        ELSE IF accepted.err # NoError
        THEN [o |-> r.o, err |-> accepted.err, trace |-> r.trace, result |-> NoResult]
        ELSE [o |-> r.o, err |-> NoError, trace |-> r.trace,
              result |-> [accepted |-> accepted.ret,
                          output |-> UndefinedToNull(output.ret),
                          finalState |-> Str(r.o.currentState)]]

\* process(input): start at the initial state, consume every code point, report.
processFn(o, input) ==
    LET start == [o EXCEPT !.currentState = o.initialState]
        r == processLoopFn(start, input, 1, <<start.currentState>>)
        output == getOutputFn(r.o, r.o.currentState)
        accepted == isAcceptingState(r.o, r.o.currentState)
    IN  IF r.err # NoError
        THEN [o |-> r.o, err |-> r.err, trace |-> r.trace, result |-> NoResult]
        ELSE IF output.err # NoError
        THEN [o |-> r.o, err |-> output.err, trace |-> r.trace, result |-> NoResult]
        ELSE IF accepted.err # NoError
        THEN [o |-> r.o, err |-> accepted.err, trace |-> r.trace, result |-> NoResult]
        ELSE [o |-> r.o, err |-> NoError, trace |-> r.trace,
              result |-> [accepted |-> accepted.ret,
                          output |-> UndefinedToNull(output.ret),
                          finalState |-> Str(r.o.currentState)]]

(***************************************************************************)
(* getStructure, the same code in both classes                             *)
(***************************************************************************)
\* key.split(","): the pieces of key between its commas, from position i on,
\* piece being the one under way.
RECURSIVE split(_, _, _)
split(key, i, piece) ==
    IF i > Len(key) THEN <<piece>>
    ELSE IF CharAt(key, i) = "," THEN <<piece>> \o split(key, i + 1, "")
    ELSE split(key, i + 1, piece \o CharAt(key, i))

\* const [fromState, input] = key.split(","); push([fromState, input, toState])
\* A key always holds a comma, so there are at least two pieces.
TripleOfEntry(entry) ==
    LET pieces == split(entry.k, 1, "")
    IN  <<pieces[1], pieces[2], entry.v.v>>

\* The FSMConfig assembled from the fields, the table and the outputs.
structureOf(o, table, outputs) ==
    [states |-> o.states,
     alphabet |-> o.alphabet,
     initialState |-> o.initialState,
     acceptingStates |-> o.acceptingStates,
     transitions |-> [i \in 1..Len(table) |-> TripleOfEntry(table[i])],
     outputs |-> [i \in 1..Len(outputs) |-> <<outputs[i].k, outputs[i].v>>]]

\* What JSON.stringify writes for a value held in an array: null for
\* undefined, the value itself for a string, a number or a boolean.
JSONValue(x) == IF x = Undefined THEN Null ELSE x

\* JSON.stringify(structure, null, 2): the text, represented by the names and
\* the values it spells out.
JSONStringify(structure) ==
    [t |-> "json",
     v |-> [structure EXCEPT !.outputs =
                [i \in 1..Len(structure.outputs) |->
                    <<structure.outputs[i][1], JSONValue(structure.outputs[i][2])>>]]]

\* JSON.parse(text)
JSONParse(text) == text.v

\* A plausible slip: the current state exported as the initial state.
getStructure_FromCurrent(o, format) ==
    LET structure == [structureOf(o, o.transitionMap, o.outputMap)
                        EXCEPT !.initialState = o.currentState]
    IN  IF format = "json" THEN JSONStringify(structure)
        ELSE [t |-> "object", v |-> structure]

\* getStructure(format), stateful class
getStructure(o, format) ==
    LET structure == structureOf(o, o.transitionMap, o.outputMap)
    IN  IF format = "json" THEN JSONStringify(structure)
        ELSE [t |-> "object", v |-> structure]

\* getStructure(format), stateless class
getStructureFn(o, format) ==
    LET structure == structureOf(o, o.transitionFunction, o.outputFunction)
    IN  IF format = "json" THEN JSONStringify(structure)
        ELSE [t |-> "object", v |-> structure]

(***************************************************************************)
(* Bounds and inputs                                                       *)
(***************************************************************************)
MaxTransitions == 2   \* longest list of transitions drawn from Triples
MaxInput == 2         \* longest input assembled from InputChars

\* All sequences over S of length at most n.
RECURSIVE SeqsUpTo(_, _)
SeqsUpTo(S, n) ==
    IF n = 0 THEN {<<>>}
    ELSE LET shorter == SeqsUpTo(S, n - 1)
         IN  shorter \cup {Append(q, x) : q \in shorter, x \in S}

\* All strings over the characters C of length at most n.
RECURSIVE StringsUpTo(_, _)
StringsUpTo(C, n) ==
    IF n = 0 THEN {""}
    ELSE LET shorter == StringsUpTo(C, n - 1)
         IN  shorter \cup {q \o c : q \in shorter, c \in C}

\* Triples the transition lists are drawn from: a plain step, a second triple
\* for the same (state, symbol) whose destination is the empty name, a pair of
\* triples whose keys `${state},${input}` coincide, and a step back.
Triples ==
    { <<"A", "0", "B">>, <<"A", "0", "">>, <<"A", ",", "B">>,
      <<"A,", "", "A">>, <<"B", "0", "A">> }

PlainStates == <<"A", "B">>
OddStates == <<"A", "B", "", "A,">>
PlainAlphabet == <<"0">>
OddAlphabet == <<"0", ",", "">>

Config(states, alphabet, initialState, acceptingStates, transitions, outputs) ==
    [states |-> states, alphabet |-> alphabet, initialState |-> initialState,
     acceptingStates |-> acceptingStates, transitions |-> transitions,
     outputs |-> outputs]

\* Configurations that vary the transition list.
TransitionConfigs ==
    { Config(s, a, "A", <<"B">>, t, << <<"A", Str("Output A")>> >>) :
        s \in {PlainStates, OddStates},
        a \in {PlainAlphabet, OddAlphabet},
        t \in SeqsUpTo(Triples, MaxTransitions) }

\* Configurations that vary what the constructor validates: the initial state,
\* the accepting states, the transitions and the outputs, declared or not,
\* repeated or not, with outputs that are falsy values.
ValidationConfigs ==
    { Config(<<"A", "B", "A">>, <<"0", "0">>, i, acc, t, out) :
        i \in {"A", "Z"},
        acc \in { <<>>, <<"B", "A", "B">>, <<"A", "Z", "Y">> },
        t \in { <<>>,
                << <<"A", "0", "B">>, <<"B", "0", "B">> >>,
                << <<"A", "1", "B">> >>,
                << <<"Z", "0", "B">> >>,
                << <<"A", "0", "Z">> >>,
                << <<"Y", "1", "Z">> >>,
                << <<"A", "1", "A">>, <<"A", "0", "Z">> >>,
                << <<"A", "0", "A">>, <<"Z", "0", "A">>, <<"A", "1", "A">> >> },
        out \in { <<>>,
                  << <<"B", Str("")>>, <<"A", Num("0")>>, <<"B", Bool(FALSE)>> >>,
                  << <<"A", Str("")>> >>,
                  << <<"A", Str("x")>>, <<"Z", Str("z")>> >> } }

\* The configuration of the test suite.
TestConfig ==
    Config(<<"A", "B", "C">>, <<"0", "1">>, "A", <<"C">>,
           << <<"A", "0", "B">>, <<"A", "1", "A">>, <<"B", "0", "C">>,
              <<"B", "1", "A">>, <<"C", "0", "C">>, <<"C", "1", "C">> >>,
           << <<"A", Str("Output A")>>, <<"B", Str("Output B")>>,
              <<"C", Str("Output C")>> >>)

\* The traffic light of the README.
TrafficLight ==
    Config(<<"Red", "Yellow", "Green">>, <<"Next">>, "Red", <<"Red", "Green">>,
           << <<"Red", "Next", "Green">>, <<"Green", "Next", "Yellow">>,
              <<"Yellow", "Next", "Red">> >>,
           << <<"Red", Str("Stop")>>, <<"Yellow", Str("Prepare to stop")>>,
              <<"Green", Str("Go")>> >>)

Configs == TransitionConfigs \cup ValidationConfigs \cup {TestConfig, TrafficLight}

InputChars == {"0", ","}

\* The inputs given to process.
Inputs == StringsUpTo(InputChars, MaxInput) \cup {"001", "002", "012", "NextNextNext"}

\* The symbols and states given to transition.
SymbolArgs == {"0", ",", "", "Next"}
StateArgs == {"A", "", "A,", "Z", "Red"}
FormatArgs == {"json", "object"}

(***************************************************************************)
(* The state machine                                                       *)
(***************************************************************************)
\* The record of a call: res.err.kind = "none" when it returned.
Call(op, a1, a2, err, ret, result, trace) ==
    [op |-> op, a1 |-> a1, a2 |-> a2, err |-> err, ret |-> ret,
     result |-> result, trace |-> trace]

Init ==
    /\ config \in Configs
    /\ fsm = NoObject(NoError)
    /\ fn = NoObjectFn(NoError)
    /\ res = Call("none", "", "", NoError, Undefined, NoResult, <<>>)

\* new FiniteStateMachine(config), stateful class.  Both classes are exported
\* under the one name FiniteStateMachine, by src/unnamed/part_000 and by
\* src/src/index.ts: a program holds a machine of one of them.
New ==
    /\ ~fsm.live /\ fsm.err = NoError
    /\ ~fn.live
    /\ fsm' = constructor(config)
    /\ res' = Call("new", "", "", fsm'.err, Undefined, NoResult, <<>>)
    /\ UNCHANGED <<config, fn>>

\* new FiniteStateMachine(config), stateless class
NewFn ==
    /\ ~fn.live /\ fn.err = NoError
    /\ ~fsm.live
    /\ fn' = constructorFn(config)
    /\ res' = Call("newFn", "", "", fn'.err, Undefined, NoResult, <<>>)
    /\ UNCHANGED <<config, fsm>>

\* fsm.transition(symbol)
Transition ==
    /\ fsm.live
    /\ \E symbol \in SymbolArgs :
        LET t == transition(fsm, symbol)
        IN  /\ fsm' = t.o
            /\ res' = Call("transition", symbol, fsm.currentState, t.err, t.ret,
                           NoResult, <<>>)
    /\ UNCHANGED <<config, fn>>

\* fsm.process(input)
Process ==
    /\ fsm.live
    /\ \E input \in Inputs :
        LET p == process(fsm, input)
        IN  /\ fsm' = p.o
            /\ res' = Call("process", input, fsm.currentState, p.err, Undefined, p.result, p.trace)
    /\ UNCHANGED <<config, fn>>

\* fsm.reset()
Reset ==
    /\ fsm.live
    /\ fsm' = reset(fsm)
    /\ res' = Call("reset", "", fsm.currentState, NoError, Undefined, NoResult, <<>>)
    /\ UNCHANGED <<config, fn>>

\* fn.transition(state, symbol)
TransitionFn ==
    /\ fn.live
    /\ \E state \in StateArgs, symbol \in SymbolArgs :
        LET t == transitionFn(fn, state, symbol)
        IN  /\ fn' = t.o
            /\ res' = Call("transitionFn", symbol, state, t.err, t.ret, NoResult, <<>>)
    /\ UNCHANGED <<config, fsm>>

\* fn.process(input)
ProcessFn ==
    /\ fn.live
    /\ \E input \in Inputs :
        LET p == processFn(fn, input)
        IN  /\ fn' = p.o
            /\ res' = Call("processFn", input, fn.currentState, p.err, Undefined,
                           p.result, p.trace)
    /\ UNCHANGED <<config, fsm>>

\* fsm.getCurrentState()
GetCurrentState ==
    /\ fsm.live
    /\ res' = Call("getCurrentState", "", fsm.currentState, NoError,
                   Str(getCurrentState(fsm)), NoResult, <<>>)
    /\ UNCHANGED <<config, fsm, fn>>

\* fsm.isInAcceptingState()
IsInAcceptingState ==
    /\ fsm.live
    /\ res' = Call("isInAcceptingState", "", fsm.currentState, NoError,
                   Bool(isInAcceptingState(fsm)), NoResult, <<>>)
    /\ UNCHANGED <<config, fsm, fn>>

\* fsm.getOutput()
GetOutput ==
    /\ fsm.live
    /\ res' = Call("getOutput", "", fsm.currentState, NoError, getOutput(fsm),
                   NoResult, <<>>)
    /\ UNCHANGED <<config, fsm, fn>>

\* fsm.getStructure(format)
GetStructure ==
    /\ fsm.live
    /\ \E format \in FormatArgs :
        res' = Call("getStructure", format, fsm.currentState, NoError,
                    getStructure(fsm, format), NoResult, <<>>)
    /\ UNCHANGED <<config, fsm, fn>>

\* fsm.isValidState(state)
IsValidState ==
    /\ fsm.live
    /\ \E state \in StateArgs :
        res' = Call("isValidState", "", state, NoError, Bool(isValidState(fsm, state)),
                    NoResult, <<>>)
    /\ UNCHANGED <<config, fsm, fn>>

\* fsm.isValidSymbol(symbol)
IsValidSymbol ==
    /\ fsm.live
    /\ \E symbol \in SymbolArgs :
        res' = Call("isValidSymbol", symbol, "", NoError,
                    Bool(isValidSymbol(fsm, symbol)), NoResult, <<>>)
    /\ UNCHANGED <<config, fsm, fn>>

\* fn.isValidState(state)
IsValidStateFn ==
    /\ fn.live
    /\ \E state \in StateArgs :
        res' = Call("isValidStateFn", "", state, NoError,
                    Bool(isValidStateFn(fn, state)), NoResult, <<>>)
    /\ UNCHANGED <<config, fsm, fn>>

\* fn.isValidSymbol(symbol)
IsValidSymbolFn ==
    /\ fn.live
    /\ \E symbol \in SymbolArgs :
        res' = Call("isValidSymbolFn", symbol, "", NoError,
                    Bool(isValidSymbolFn(fn, symbol)), NoResult, <<>>)
    /\ UNCHANGED <<config, fsm, fn>>

\* fn.getCurrentState()
GetCurrentStateFn ==
    /\ fn.live
    /\ res' = Call("getCurrentStateFn", "", fn.currentState, NoError,
                   Str(fn.currentState), NoResult, <<>>)
    /\ UNCHANGED <<config, fsm, fn>>

\* fn.isAcceptingState(state)
IsAcceptingState ==
    /\ fn.live
    /\ \E state \in StateArgs :
        LET q == isAcceptingState(fn, state)
        IN  /\ fn' = q.o
            /\ res' = Call("isAcceptingState", "", state, q.err, q.ret, NoResult, <<>>)
    /\ UNCHANGED <<config, fsm>>

\* fn.getOutput(state)
GetOutputFn ==
    /\ fn.live
    /\ \E state \in StateArgs :
        LET q == getOutputFn(fn, state)
        IN  /\ fn' = q.o
            /\ res' = Call("getOutputFn", "", state, q.err, q.ret, NoResult, <<>>)
    /\ UNCHANGED <<config, fsm>>

\* fn.getStructure(format)
GetStructureFn ==
    /\ fn.live
    /\ \E format \in FormatArgs :
        res' = Call("getStructureFn", format, fn.currentState, NoError,
                    getStructureFn(fn, format), NoResult, <<>>)
    /\ UNCHANGED <<config, fsm, fn>>

Next ==
    \/ New
    \/ NewFn
    \/ Transition
    \/ Process
    \/ Reset
    \/ GetCurrentState
    \/ IsInAcceptingState
    \/ GetOutput
    \/ GetStructure
    \/ IsValidState
    \/ IsValidSymbol
    \/ TransitionFn
    \/ ProcessFn
    \/ IsAcceptingState
    \/ GetOutputFn
    \/ GetStructureFn
    \/ IsValidStateFn
    \/ IsValidSymbolFn
    \/ GetCurrentStateFn

Spec == Init /\ [][Next]_vars

(***************************************************************************)
(* Vocabulary of the properties.  "Declared" is read off the configuration;*)
(* "the transition table" is the table the constructor built, looked up    *)
(* with the key of the pair.                                               *)
(***************************************************************************)
DeclaredState(s) == \E i \in 1..Len(config.states) : config.states[i] = s

DeclaredSymbol(a) == \E i \in 1..Len(config.alphabet) : config.alphabet[i] = a

AcceptingState(s) ==
    \E i \in 1..Len(config.acceptingStates) : config.acceptingStates[i] = s

\* The output configured for s (the last pair that names s), null when none.
ConfiguredOutput(s) ==
    LET idx == {i \in 1..Len(config.outputs) : config.outputs[i][1] = s}
    IN  IF idx = {} THEN Null
        ELSE config.outputs[CHOOSE i \in idx : \A j \in idx : j <= i][2]

\* Position of the first character of input that is no declared symbol, 0 when
\* every character is declared.
FirstUndeclared(input) ==
    LET idx == {i \in 1..Len(input) : ~DeclaredSymbol(CharAt(input, i))}
    IN  IF idx = {} THEN 0 ELSE CHOOSE i \in idx : \A j \in idx : i <= j

\* Folding a table over input from state s: the state reached, and whether
\* every step on the way had an entry.
RECURSIVE FoldTable(_, _, _, _)
FoldTable(table, s, input, i) ==
    IF i > Len(input) THEN [defined |-> TRUE, state |-> s]
    ELSE IF ~MapHas(table, Key(s, CharAt(input, i)))
    THEN [defined |-> FALSE, state |-> s]
    ELSE FoldTable(table, MapGet(table, Key(s, CharAt(input, i))).v, input, i + 1)

(***************************************************************************)
(* C1                                                                      *)
(***************************************************************************)
\* C1: whatever calls of transition, process and reset were made on a machine
\* that was constructed, returning or throwing, getCurrentState() is one of the
\* declared states.
C1_CurrentStateDeclared == fsm.live => DeclaredState(getCurrentState(fsm))

\* A process call that moved the machine and then threw.
C1_Witness ==
    /\ fsm.live
    /\ res.op = "process"
    /\ res.err # NoError
    /\ getCurrentState(fsm) # fsm.initialState

(***************************************************************************)
(* C2                                                                      *)
(***************************************************************************)
\* C2: when every character of input is a declared symbol and every step of the
\* table from the initial state is defined, process(input) returns the state the
\* fold reaches as finalState, whether it is accepting, and its output or null.
C2_ProcessFoldsTable ==
    LET f == FoldTable(fsm.transitionMap, config.initialState, res.a1, 1)
    IN  (/\ fsm.live
         /\ res.op = "process"
         /\ FirstUndeclared(res.a1) = 0
         /\ f.defined)
        => /\ res.err = NoError
           /\ res.result = [accepted |-> Bool(AcceptingState(f.state)),
                            output |-> ConfiguredOutput(f.state),
                            finalState |-> Str(f.state)]

(***************************************************************************)
(* C3                                                                      *)
(***************************************************************************)
\* C3: on the traffic light of the README, process("NextNextNext") returns
\* {accepted: true, output: "Stop", finalState: "Red"}.
C3_TrafficLightNextNextNext ==
    (/\ config = TrafficLight
     /\ res.op \in {"process", "processFn"}
     /\ res.a1 = "NextNextNext")
    => /\ res.err = NoError
       /\ res.result = [accepted |-> Bool(TRUE), output |-> Str("Stop"),
                        finalState |-> Str("Red")]

(***************************************************************************)
(* C4                                                                      *)
(***************************************************************************)
\* C4: transition(symbol) called in state c: with a destination d configured for
\* (c, symbol) the current state becomes d and d is returned; with a declared
\* symbol and no destination null is returned and the state stays c; with an
\* undeclared symbol InvalidSymbolError is raised and the state stays c.
C4_TransitionMovesOnlyWhenDefined ==
    LET symbol == res.a1
        c == res.a2
        k == Key(c, symbol)
    IN  (fsm.live /\ res.op = "transition")
        => /\ (DeclaredSymbol(symbol) /\ MapHas(fsm.transitionMap, k))
                => /\ res.err = NoError
                   /\ res.ret = MapGet(fsm.transitionMap, k)
                   /\ Str(getCurrentState(fsm)) = MapGet(fsm.transitionMap, k)
           /\ (DeclaredSymbol(symbol) /\ ~MapHas(fsm.transitionMap, k))
                => /\ res.err = NoError
                   /\ res.ret = Null
                   /\ getCurrentState(fsm) = c
           /\ ~DeclaredSymbol(symbol)
                => /\ res.err = InvalidSymbolError(symbol)
                   /\ getCurrentState(fsm) = c

(***************************************************************************)
(* C5                                                                      *)
(***************************************************************************)
\* The table and the current state of the object a process call ran on.
TableOf(op) == IF op = "process" THEN fsm.transitionMap ELSE fn.transitionFunction

CurrentOf(op) == IF op = "process" THEN fsm.currentState ELSE fn.currentState

IsProcess == res.op \in {"process", "processFn"}

\* C5 as claimed: process(input) fails with InvalidSymbolError whenever some
\* character of input is not a declared symbol.
C5_UndeclaredAlwaysInvalidSymbol ==
    (IsProcess /\ FirstUndeclared(res.a1) # 0)
    => /\ res.err.kind = "InvalidSymbolError"
       /\ res.result = NoResult

\* C5, amended: process(input) returns no result whenever some character of
\* input is not a declared symbol; it fails with InvalidSymbolError at the first
\* undeclared character, unless an earlier character already raised the
\* no-transition error; the no-transition error is never raised for an
\* undeclared character.
C5_UndeclaredNeverReturns ==
    LET k == FirstUndeclared(res.a1)
    IN  (IsProcess /\ k # 0)
        => /\ res.result = NoResult
           /\ res.err.kind \in {"InvalidSymbolError", "Error"}
           /\ res.err.kind = "InvalidSymbolError"
                => /\ Len(res.trace) = k
                   /\ res.err.arg = CharAt(res.a1, k)
           /\ res.err.kind = "Error" => Len(res.trace) < k

\* process("002") on the machine of the test suite: two symbols consumed, then
\* InvalidSymbolError for "2".
C5_Witness ==
    /\ res.op = "process"
    /\ FirstUndeclared(res.a1) = 3
    /\ res.err = InvalidSymbolError("2")
    /\ Len(res.trace) = 3

(***************************************************************************)
(* C6                                                                      *)
(***************************************************************************)
\* C6: when process(input), having consumed i-1 symbols, is in a state that has
\* no entry for the declared i-th symbol, it raises the no-transition error
\* there: no later symbol is consumed, the machine stays in that state, and no
\* result is returned.
C6_NoTransitionStopsProcess ==
    IsProcess
    => \A i \in 1..Len(res.a1) :
          (/\ i <= Len(res.trace)
           /\ DeclaredSymbol(CharAt(res.a1, i))
           /\ ~MapHas(TableOf(res.op), Key(res.trace[i], CharAt(res.a1, i))))
          => /\ res.err = NoTransitionError(res.trace[i], CharAt(res.a1, i))
             /\ Len(res.trace) = i
             /\ CurrentOf(res.op) = res.trace[i]
             /\ res.result = NoResult

\* A process call that consumed a symbol and then met a declared symbol with no
\* entry, with more input left.
C6_Witness ==
    /\ res.op = "process"
    /\ Len(res.trace) = 2
    /\ Len(res.a1) = 3
    /\ DeclaredSymbol(CharAt(res.a1, 2))
    /\ ~MapHas(fsm.transitionMap, Key(res.trace[2], CharAt(res.a1, 2)))
    /\ res.err.kind = "Error"

(***************************************************************************)
(* C7                                                                      *)
(***************************************************************************)
\* C7: for a declared state and a declared symbol, transition(state, symbol)
\* returns the destination configured for the pair when there is one, whatever
\* its name, and null exactly when there is none.
C7_QueryReturnsDestination ==
    LET symbol == res.a1
        state == res.a2
        k == Key(state, symbol)
    IN  (/\ fn.live
         /\ res.op = "transitionFn"
         /\ DeclaredState(state)
         /\ DeclaredSymbol(symbol))
        => /\ res.err = NoError
           /\ MapHas(fn.transitionFunction, k)
                => res.ret = MapGet(fn.transitionFunction, k)
           /\ res.ret = Null <=> ~MapHas(fn.transitionFunction, k)

(***************************************************************************)
(* C8                                                                      *)
(***************************************************************************)
\* C8: transition(state, symbol) raises InvalidStateError for an undeclared
\* state, also when the symbol is undeclared as well, and InvalidSymbolError for
\* a declared state with an undeclared symbol; neither returns a value.
C8_QueryChecksStateThenSymbol ==
    LET symbol == res.a1
        state == res.a2
    IN  (fn.live /\ res.op = "transitionFn")
        => /\ ~DeclaredState(state)
                => res.err = InvalidStateError(state) /\ res.ret = Undefined
           /\ (DeclaredState(state) /\ ~DeclaredSymbol(symbol))
                => res.err = InvalidSymbolError(symbol) /\ res.ret = Undefined

\* The query with an undeclared state and an undeclared symbol.
C8_Witness ==
    /\ fn.live
    /\ res.op = "transitionFn"
    /\ ~DeclaredState(res.a2)
    /\ ~DeclaredSymbol(res.a1)
    /\ res.err.kind = "InvalidStateError"

(***************************************************************************)
(* C9                                                                      *)
(***************************************************************************)
\* A constructor has run on the object: it returned or it threw.
Attempted(o) == o.live \/ o.err # NoError

UndeclaredEndpoint(t) == ~DeclaredState(t[1]) \/ ~DeclaredState(t[3])

\* Some state the configuration refers to is not in states.
StateViolation ==
    \/ ~DeclaredState(config.initialState)
    \/ \E i \in 1..Len(config.acceptingStates) :
          ~DeclaredState(config.acceptingStates[i])
    \/ \E i \in 1..Len(config.outputs) : ~DeclaredState(config.outputs[i][1])
    \/ \E i \in 1..Len(config.transitions) : UndeclaredEndpoint(config.transitions[i])

\* Some transition symbol is not in alphabet.
SymbolViolation ==
    \E i \in 1..Len(config.transitions) : ~DeclaredSymbol(config.transitions[i][2])

\* C9 as claimed, of the constructor that made o.
ValidationAsClaimed(o) ==
    Attempted(o)
    => /\ StateViolation => o.err.kind = "InvalidStateError"
       /\ (SymbolViolation /\ ~StateViolation) => o.err.kind = "InvalidSymbolError"
       /\ o.live => (~StateViolation /\ ~SymbolViolation)

\* C9 as claimed: construction fails with InvalidStateError whenever some state
\* referred to is undeclared, with InvalidSymbolError whenever some transition
\* symbol is undeclared and all states are declared, and succeeds only when
\* there is no violation.
C9_ValidationCompleteness == ValidationAsClaimed(fsm) /\ ValidationAsClaimed(fn)

ValidationAmended(o) ==
    Attempted(o)
    => /\ (StateViolation \/ SymbolViolation)
            => ~o.live /\ o.err.kind \in {"InvalidStateError", "InvalidSymbolError"}
       /\ (StateViolation /\ ~SymbolViolation) => o.err.kind = "InvalidStateError"
       /\ (SymbolViolation /\ ~StateViolation) => o.err.kind = "InvalidSymbolError"

\* C9, amended: construction fails for every configuration with an undeclared
\* state or an undeclared transition symbol, and so succeeds only when there is
\* none; it fails with InvalidStateError when only states are undeclared, with
\* InvalidSymbolError when only transition symbols are, and with one of the two
\* when both are.
C9_ValidationFailsOnEveryViolation == ValidationAmended(fsm) /\ ValidationAmended(fn)

\* A configuration with an undeclared state and an undeclared transition symbol
\* on which construction raised InvalidSymbolError.
C9_Witness ==
    /\ StateViolation
    /\ SymbolViolation
    /\ fsm.err.kind = "InvalidSymbolError"
    /\ fn.err.kind = "InvalidSymbolError"

(***************************************************************************)
(* C10                                                                     *)
(***************************************************************************)
\* Index of the first element of 1..n that satisfies P, 0 when none does.
FirstIndex(n, P(_)) ==
    IF \E i \in 1..n : P(i)
    THEN CHOOSE i \in 1..n : P(i) /\ \A j \in 1..(i - 1) : ~P(j)
    ELSE 0

\* The first violation in the order initial state, accepting states,
\* transitions (in sequence order, states before symbol), output states.
FirstViolation ==
    LET a == FirstIndex(Len(config.acceptingStates),
                        LAMBDA i : ~DeclaredState(config.acceptingStates[i]))
        t == FirstIndex(Len(config.transitions),
                        LAMBDA i : \/ UndeclaredEndpoint(config.transitions[i])
                                   \/ ~DeclaredSymbol(config.transitions[i][2]))
        p == FirstIndex(Len(config.outputs),
                        LAMBDA i : ~DeclaredState(config.outputs[i][1]))
    IN  IF ~DeclaredState(config.initialState)
        THEN [step |-> "initial", kind |-> "InvalidStateError",
              arg |-> config.initialState]
        ELSE IF a # 0
        THEN [step |-> "accepting", kind |-> "InvalidStateError",
              arg |-> config.acceptingStates[a]]
        ELSE IF t # 0 /\ UndeclaredEndpoint(config.transitions[t])
        THEN [step |-> "transition", kind |-> "InvalidStateError", arg |-> ""]
        ELSE IF t # 0
        THEN [step |-> "transition", kind |-> "InvalidSymbolError",
              arg |-> config.transitions[t][2]]
        ELSE IF p # 0
        THEN [step |-> "output", kind |-> "InvalidStateError",
              arg |-> config.outputs[p][1]]
        ELSE [step |-> "none", kind |-> "none", arg |-> ""]

RaisesFirstViolation(o) ==
    Attempted(o)
    => /\ o.err.kind = FirstViolation.kind
       /\ ~(FirstViolation.step = "transition" /\ FirstViolation.kind = "InvalidStateError")
            => o.err.arg = FirstViolation.arg

\* C10: construction raises the error of the first violation in the order
\* initial state, accepting states, transitions, output states; an invalid
\* transition wins over an undeclared output state.
C10_ValidationOrder == RaisesFirstViolation(fsm) /\ RaisesFirstViolation(fn)

(***************************************************************************)
(* C11                                                                     *)
(***************************************************************************)
\* The initial state, the accepting states and the output states are all
\* declared: a construction that fails is failed by a transition.
OnlyTransitionsViolate ==
    /\ DeclaredState(config.initialState)
    /\ \A i \in 1..Len(config.acceptingStates) :
          DeclaredState(config.acceptingStates[i])
    /\ \A i \in 1..Len(config.outputs) : DeclaredState(config.outputs[i][1])

\* Index of the first transition with an undeclared state or symbol, 0 if none.
FirstBadTriple ==
    FirstIndex(Len(config.transitions),
               LAMBDA i : \/ UndeclaredEndpoint(config.transitions[i])
                          \/ ~DeclaredSymbol(config.transitions[i][2]))

\* The transition that fails the construction has an undeclared endpoint.
FailedByEndpoint ==
    /\ OnlyTransitionsViolate
    /\ FirstBadTriple # 0
    /\ UndeclaredEndpoint(config.transitions[FirstBadTriple])

NamesUndeclaredEndpoint(o) ==
    (Attempted(o) /\ FailedByEndpoint)
    => LET t == config.transitions[FirstBadTriple]
       IN  /\ o.err.kind = "InvalidStateError"
           /\ o.err.arg \in {t[1], t[3]}
           /\ ~DeclaredState(o.err.arg)

\* C11: when the transition that fails the construction has an undeclared
\* source or destination, the error is InvalidStateError, also when the symbol
\* is undeclared too, and the state it names is an undeclared endpoint of that
\* transition.
C11_ErrorNamesUndeclaredEndpoint ==
    NamesUndeclaredEndpoint(fsm) /\ NamesUndeclaredEndpoint(fn)

(***************************************************************************)
(* C12                                                                     *)
(***************************************************************************)
\* C12: reset() returns normally and leaves getCurrentState() equal to the
\* initial state, the state a freshly constructed machine is in, wherever the
\* machine was before: moved away by earlier calls or already reset.
C12_ResetReturnsToInitial ==
    (fsm.live /\ res.op = "reset")
    => /\ res.err = NoError
       /\ getCurrentState(fsm) = config.initialState
       /\ getCurrentState(fsm) = getCurrentState(constructor(config))

\* reset() called on a machine that earlier calls had moved off its initial
\* state.
C12_Witness ==
    /\ fsm.live
    /\ res.op = "reset"
    /\ res.a2 # config.initialState
    /\ getCurrentState(fsm) = config.initialState

(***************************************************************************)
(* C13                                                                     *)
(***************************************************************************)
\* What reset() followed by isInAcceptingState(), getOutput() and
\* getCurrentState() report on o, in the shape of a ProcessResult.
ResetThenQueries(o) ==
    LET r == reset(o)
    IN  [accepted |-> Bool(isInAcceptingState(r)),
         output |-> UndefinedToNull(getOutput(r)),
         finalState |-> Str(getCurrentState(r))]

\* C13: process("") returns normally from any current state; its result is
\* what reset() followed by the current-state queries report, that is the
\* initial state, whether the initial state is accepting, and the initial
\* state's output or null; afterwards the current state is the initial state.
C13_EmptyInputReportsInitial ==
    (fsm.live /\ res.op = "process" /\ res.a1 = "")
    => /\ res.err = NoError
       /\ res.result = ResetThenQueries([fsm EXCEPT !.currentState = res.a2])
       /\ res.result.finalState = Str(config.initialState)
       /\ res.result.accepted = Bool(AcceptingState(config.initialState))
       /\ res.result.output = ConfiguredOutput(config.initialState)
       /\ getCurrentState(fsm) = config.initialState

\* process("") called on a machine that earlier calls had moved off its initial
\* state.
C13_Witness ==
    /\ fsm.live
    /\ res.op = "process"
    /\ res.a1 = ""
    /\ res.a2 # config.initialState
    /\ res.err = NoError
    /\ res.result.finalState = Str(config.initialState)

(***************************************************************************)
(* C14                                                                     *)
(***************************************************************************)
\* The outcome of a process call: the error kind and the result.
Outcome(p) == [kind |-> p.err.kind, result |-> p.result]

\* C14: whatever calls preceded it, process(input) has the outcome (the triple
\* accepted, output, finalState, or the error kind) that process(input) has on
\* a freshly constructed machine of the same configuration, so any two process
\* calls with the same input have the same outcome.
C14_ProcessHistoryIndependent ==
    /\ (fsm.live /\ res.op = "process")
        => Outcome(res) = Outcome(process(constructor(config), res.a1))
    /\ (fn.live /\ res.op = "processFn")
        => Outcome(res) = Outcome(processFn(constructorFn(config), res.a1))

\* A process call that consumed two symbols on a machine that earlier calls had
\* moved off its initial state.
C14_Witness ==
    /\ res.op \in {"process", "processFn"}
    /\ res.a2 # config.initialState
    /\ res.err = NoError
    /\ Len(res.trace) = 3

(***************************************************************************)
(* C15                                                                     *)
(***************************************************************************)
\* The calls of the stateful class that are neither transition, process nor
\* reset.
Queries ==
    {"getCurrentState", "isInAcceptingState", "getOutput", "getStructure",
     "isValidState", "isValidSymbol"}

\* The current-state queries on o report the ProcessResult result: the final
\* state, accepted, and the output, undefined where the result has null.
AgreesWithResult(o, result) ==
    /\ Str(getCurrentState(o)) = result.finalState
    /\ Bool(isInAcceptingState(o)) = result.accepted
    /\ getOutput(o) = IF result.output = Null THEN Undefined ELSE result.output

\* C15: when process(input) returns, getCurrentState(), isInAcceptingState()
\* and getOutput() on the machine it leaves agree with the returned result;
\* the calls other than transition, process and reset leave the machine as it
\* is and report what these queries give on it, so the agreement lasts until
\* the next transition, process or reset.
C15_StaysAtFinalState ==
    [][/\ (res'.op = "process" /\ res'.err = NoError)
            => AgreesWithResult(fsm', res'.result)
       /\ res'.op \in Queries => fsm' = fsm
       /\ res'.op = "getCurrentState" => res'.ret = Str(getCurrentState(fsm))
       /\ res'.op = "isInAcceptingState" => res'.ret = Bool(isInAcceptingState(fsm))
       /\ res'.op = "getOutput" => res'.ret = getOutput(fsm)]_vars

\* process returned on an accepting final state, other than the initial state,
\* that has an output.
C15_Witness ==
    /\ fsm.live
    /\ res.op = "process"
    /\ res.err = NoError
    /\ res.result.finalState = Str(getCurrentState(fsm))
    /\ getCurrentState(fsm) # config.initialState
    /\ res.result.accepted = Bool(TRUE)
    /\ res.result.output # Null

(***************************************************************************)
(* C16                                                                     *)
(***************************************************************************)
\* The configuration has an output for state s.
HasOutput(s) == \E i \in 1..Len(config.outputs) : config.outputs[i][1] = s

\* C16: getOutput() gives undefined, and process gives the output null, exactly
\* for a state with no configured output; for a state with one they give the
\* configured value, also when it is the empty string, zero or false.
C16_AbsentOnlyWhenUnconfigured ==
    /\ (fsm.live /\ res.op = "getOutput")
        => /\ res.ret = Undefined <=> ~HasOutput(res.a2)
           /\ HasOutput(res.a2) => res.ret = ConfiguredOutput(res.a2)
    /\ (fsm.live /\ res.op = "process" /\ res.err = NoError)
        => LET s == res.result.finalState.v
           IN  /\ res.result.output = Null <=> ~HasOutput(s)
               /\ HasOutput(s) => res.result.output = ConfiguredOutput(s)

\* process returned the falsy output configured for its final state.
C16_Witness ==
    /\ fsm.live
    /\ res.op = "process"
    /\ res.err = NoError
    /\ HasOutput(res.result.finalState.v)
    /\ ~Truthy(res.result.output)
    /\ res.result.output = ConfiguredOutput(res.result.finalState.v)

(***************************************************************************)
(* C17                                                                     *)
(***************************************************************************)
\* The elements of a sequence.
Elements(seq) == {seq[i] : i \in 1..Len(seq)}

\* Two machines of the stateful class have equal state sets, alphabets, initial
\* states, accepting sets, transition tables and output tables.
SameMachine(o1, o2) ==
    /\ Elements(o1.states) = Elements(o2.states)
    /\ Elements(o1.alphabet) = Elements(o2.alphabet)
    /\ o1.initialState = o2.initialState
    /\ Elements(o1.acceptingStates) = Elements(o2.acceptingStates)
    /\ Elements(o1.transitionMap) = Elements(o2.transitionMap)
    /\ Elements(o1.outputMap) = Elements(o2.outputMap)

\* The same, of the stateless class.
SameMachineFn(o1, o2) ==
    /\ Elements(o1.states) = Elements(o2.states)
    /\ Elements(o1.alphabet) = Elements(o2.alphabet)
    /\ o1.initialState = o2.initialState
    /\ Elements(o1.acceptingStates) = Elements(o2.acceptingStates)
    /\ Elements(o1.transitionFunction) = Elements(o2.transitionFunction)
    /\ Elements(o1.outputFunction) = Elements(o2.outputFunction)

\* The machine constructed from what getStructure(format) exports.
Second(format) ==
    IF format = "json"
    THEN constructor(JSONParse(getStructure(fsm, "json")))
    ELSE constructor(getStructure(fsm, "object").v)

SecondFn(format) ==
    IF format = "json"
    THEN constructorFn(JSONParse(getStructureFn(fn, "json")))
    ELSE constructorFn(getStructureFn(fn, "object").v)

\* C17: for every constructed machine, constructing a second machine from the
\* exported structure, the object or the parsed JSON text, succeeds and gives
\* a machine with the same state set, alphabet, initial state, accepting set,
\* transition table and output table.
C17_RoundTrip ==
    /\ fsm.live => \A format \in FormatArgs :
                      Second(format).live /\ SameMachine(Second(format), fsm)
    /\ fn.live => \A format \in FormatArgs :
                      SecondFn(format).live /\ SameMachineFn(SecondFn(format), fn)

(***************************************************************************)
(* C18                                                                     *)
(***************************************************************************)
\* No value occurs twice in seq.
NoDuplicates(seq) ==
    \A i, j \in 1..Len(seq) : i # j => seq[i] # seq[j]

\* The configuration repeats no state, no symbol, no accepting state, no
\* (state, symbol) pair among its transitions and no state among its outputs.
DuplicateFree ==
    /\ NoDuplicates(config.states)
    /\ NoDuplicates(config.alphabet)
    /\ NoDuplicates(config.acceptingStates)
    /\ NoDuplicates([i \in 1..Len(config.transitions) |->
                        <<config.transitions[i][1], config.transitions[i][2]>>])
    /\ NoDuplicates(OutputStates(config.outputs))

\* C18: the structure exported by a machine constructed from a configuration
\* without duplicates equals the configuration field by field, every sequence
\* in its original order, as an object and as parsed JSON text.
C18_ExportEqualsConfiguration ==
    (fsm.live /\ DuplicateFree)
    => /\ getStructure(fsm, "object").v = config
       /\ JSONParse(getStructure(fsm, "json")) = config

(***************************************************************************)
(* C19                                                                     *)
(***************************************************************************)
\* C19: isAcceptingState(state) and getOutput(state) throw InvalidStateError
\* for state exactly when state is undeclared; for a declared state the first
\* returns whether state is accepting and the second the configured output, or
\* undefined when there is none.  isInAcceptingState() and getOutput() return
\* normally, and so do the explicit-state queries on the current state.
C19_StateQueriesFailOnlyOnUndeclared ==
    /\ (fn.live /\ res.op = "isAcceptingState")
        => IF DeclaredState(res.a2)
           THEN res.err = NoError /\ res.ret = Bool(AcceptingState(res.a2))
           ELSE res.err = InvalidStateError(res.a2)
    /\ (fn.live /\ res.op = "getOutputFn")
        => IF DeclaredState(res.a2)
           THEN /\ res.err = NoError
                /\ res.ret = IF HasOutput(res.a2) THEN ConfiguredOutput(res.a2)
                             ELSE Undefined
           ELSE res.err = InvalidStateError(res.a2)
    /\ (fsm.live /\ res.op \in {"isInAcceptingState", "getOutput"})
        => res.err = NoError
    /\ fn.live
        => /\ isAcceptingState(fn, fn.currentState).err = NoError
           /\ getOutputFn(fn, fn.currentState).err = NoError

\* isAcceptingState called with an undeclared state.
C19_Witness ==
    /\ fn.live
    /\ res.op = "isAcceptingState"
    /\ ~DeclaredState(res.a2)
    /\ res.err = InvalidStateError(res.a2)

(***************************************************************************)
(* C20                                                                     *)
(***************************************************************************)
\* The fields of a machine of the stateful class other than currentState.
Frame(o) ==
    <<o.states, o.alphabet, o.initialState, o.acceptingStates, o.transitionMap,
      o.outputMap>>

\* The same, of the stateless class.
FrameFn(o) ==
    <<o.states, o.alphabet, o.initialState, o.acceptingStates,
      o.transitionFunction, o.outputFunction>>

\* C20: after any sequence of calls, returning or throwing, the state set, the
\* alphabet, the initial state, the accepting set, the transition table and
\* the output table are those the constructor made, and getStructure exports
\* what it exports right after construction, whatever the current state.
C20_TablesNeverChange ==
    /\ fsm.live
        => /\ Frame(fsm) = Frame(constructor(config))
           /\ \A format \in FormatArgs :
                getStructure(fsm, format) = getStructure(constructor(config), format)
           /\ res.op = "getStructure"
                => res.ret = getStructure(constructor(config), res.a1)
    /\ fn.live
        => /\ FrameFn(fn) = FrameFn(constructorFn(config))
           /\ \A format \in FormatArgs :
                getStructureFn(fn, format)
                    = getStructureFn(constructorFn(config), format)

\* getStructure called on a machine that earlier calls had moved off its
\* initial state.
C20_Witness ==
    /\ fsm.live
    /\ res.op = "getStructure"
    /\ getCurrentState(fsm) # config.initialState
    /\ res.ret = getStructure(constructor(config), res.a1)

(***************************************************************************)
(* C21                                                                     *)
(***************************************************************************)
\* A machine freshly constructed from the configuration and put on state s.
FreshAt(s) == [constructor(config) EXCEPT !.currentState = s]

\* C21: getOutput() and isInAcceptingState() report, after any history, what
\* they report on a fresh machine put on the same current state, and so does
\* the result of process for its final state: two histories that end in the
\* same current state observe the same output and the same acceptance.
C21_OutputDependsOnStateOnly ==
    /\ (fsm.live /\ res.op = "getOutput")
        => res.ret = getOutput(FreshAt(res.a2))
    /\ (fsm.live /\ res.op = "isInAcceptingState")
        => res.ret = Bool(isInAcceptingState(FreshAt(res.a2)))
    /\ (fsm.live /\ res.op = "process" /\ res.err = NoError)
        => /\ res.result.output
                = UndefinedToNull(getOutput(FreshAt(res.result.finalState.v)))
           /\ res.result.accepted
                = Bool(isInAcceptingState(FreshAt(res.result.finalState.v)))
    /\ fsm.live
        => /\ getOutput(fsm) = getOutput(FreshAt(fsm.currentState))
           /\ isInAcceptingState(fsm) = isInAcceptingState(FreshAt(fsm.currentState))

\* getOutput() reports a configured output on a machine that earlier calls had
\* moved off its initial state.
C21_Witness ==
    /\ fsm.live
    /\ res.op = "getOutput"
    /\ res.a2 # config.initialState
    /\ res.ret # Undefined
    /\ res.ret = getOutput(FreshAt(res.a2))

(***************************************************************************)
(* C22                                                                     *)
(***************************************************************************)
\* The query operations of the two classes.
QueryOps ==
    {"isValidState", "isValidSymbol", "isValidStateFn", "isValidSymbolFn",
     "transitionFn", "isAcceptingState", "getOutputFn", "isInAcceptingState",
     "getOutput", "getStructure", "getStructureFn", "getCurrentState",
     "getCurrentStateFn"}

\* C22: a call of isValidState, isValidSymbol, the stateless transition,
\* isAcceptingState, isInAcceptingState, getOutput, getStructure or
\* getCurrentState leaves the current state as it was, whether it returns or
\* throws; isValidState and isValidSymbol return a boolean and never throw.
C22_QueriesLeaveCurrentState ==
    [][res'.op \in QueryOps
        => /\ fsm'.currentState = fsm.currentState
           /\ fn'.currentState = fn.currentState
           /\ res'.op \in {"isValidState", "isValidSymbol", "isValidStateFn",
                           "isValidSymbolFn"}
                => /\ res'.err = NoError
                   /\ res'.ret \in {Bool(TRUE), Bool(FALSE)}]_vars

\* The stateless transition threw on a machine that process had left off its
\* initial state.
C22_Witness ==
    /\ fn.live
    /\ res.op = "transitionFn"
    /\ res.err # NoError
    /\ fn.currentState # fn.initialState

(***************************************************************************)
(* C23                                                                     *)
(***************************************************************************)
\* C23: when process(input) throws after consuming i symbols, the current
\* state afterwards is the state the table leads to from the initial state
\* along the first i symbols of input, the last state process reached: the
\* machine is neither reset nor moved by the failing symbol.
C23_FailureLeavesLastReached ==
    (IsProcess /\ res.err # NoError)
    => LET i == Len(res.trace) - 1
           reached == FoldTable(TableOf(res.op), config.initialState,
                                SubSeq(res.a1, 1, i), 1)
       IN  /\ i < Len(res.a1)
           /\ reached.defined
           /\ CurrentOf(res.op) = reached.state
           /\ CurrentOf(res.op) = res.trace[Len(res.trace)]

\* process threw after it had moved the machine off its initial state.
C23_Witness ==
    /\ IsProcess
    /\ res.err # NoError
    /\ Len(res.trace) >= 2
    /\ CurrentOf(res.op) # config.initialState
    /\ CurrentOf(res.op) = res.trace[Len(res.trace)]

(***************************************************************************)
(* C24                                                                     *)
(***************************************************************************)
\* The positions of the transitions of the configuration with source s and
\* symbol a.
TriplesOf(s, a) ==
    {i \in 1..Len(config.transitions) :
        config.transitions[i][1] = s /\ config.transitions[i][2] = a}

\* The destination of the last transition with source s and symbol a.
LastDestination(s, a) ==
    config.transitions[CHOOSE i \in TriplesOf(s, a) :
                          \A j \in TriplesOf(s, a) : j <= i][3]

\* The (source, symbol) pairs that several transitions share.
RepeatedPairs ==
    {<<config.transitions[i][1], config.transitions[i][2]>> :
        i \in {k \in 1..Len(config.transitions) :
                  Cardinality(TriplesOf(config.transitions[k][1],
                                        config.transitions[k][2])) > 1}}

\* The states that several output pairs share.
RepeatedOutputStates ==
    {config.outputs[i][1] :
        i \in {k \in 1..Len(config.outputs) :
                  \E j \in 1..Len(config.outputs) :
                      j # k /\ config.outputs[j][1] = config.outputs[k][1]}}

\* seq holds the values of original, each of them once.
Collapsed(seq, original) ==
    NoDuplicates(seq) /\ Elements(seq) = Elements(original)

\* C24: a configuration with repeated entries and no undeclared name is
\* accepted; for a (source, symbol) shared by several transitions the table
\* holds, and getStructure exports, the destination of the last of them and no
\* other; for a state shared by several output pairs the output is the value
\* of the last pair; repeated states, symbols and accepting states are held
\* and exported once.
C24_LastWriteWins ==
    /\ (Attempted(fsm) /\ ~StateViolation /\ ~SymbolViolation) => fsm.live
    /\ fsm.live
        => LET exported == getStructure(fsm, "object").v
           IN  /\ \A p \in RepeatedPairs :
                    /\ MapGet(fsm.transitionMap, Key(p[1], p[2]))
                            = Str(LastDestination(p[1], p[2]))
                    /\ \A t \in Elements(exported.transitions) :
                          (t[1] = p[1] /\ t[2] = p[2])
                              => t[3] = LastDestination(p[1], p[2])
                    /\ \E t \in Elements(exported.transitions) :
                          t = <<p[1], p[2], LastDestination(p[1], p[2])>>
               /\ \A q \in RepeatedOutputStates :
                    /\ MapGet(fsm.outputMap, q) = ConfiguredOutput(q)
                    /\ Cardinality({i \in 1..Len(exported.outputs) :
                                       exported.outputs[i][1] = q}) = 1
               /\ Collapsed(fsm.states, config.states)
               /\ Collapsed(fsm.alphabet, config.alphabet)
               /\ Collapsed(fsm.acceptingStates, config.acceptingStates)
               /\ Collapsed(exported.states, config.states)
               /\ Collapsed(exported.alphabet, config.alphabet)
               /\ Collapsed(exported.acceptingStates, config.acceptingStates)

(***************************************************************************)
(* C25                                                                     *)
(***************************************************************************)
\* The destinations configured for exactly source s and symbol a.
DestinationsOf(s, a) == {config.transitions[i][3] : i \in TriplesOf(s, a)}

\* C25: the table entry of every configured (source, symbol) is the
\* destination of the last transition with that source and that symbol,
\* whatever other transitions follow it, and a lookup for (s, a), by the
\* stateful transition from s or by the stateless transition(s, a), returns
\* only a destination configured for exactly s and a.
C25_TableKeyedByPair ==
    /\ fsm.live
        => \A i \in 1..Len(config.transitions) :
              LET t == config.transitions[i]
              IN  MapGet(fsm.transitionMap, Key(t[1], t[2]))
                      = Str(LastDestination(t[1], t[2]))
    /\ (fsm.live /\ res.op = "transition" /\ res.err = NoError /\ res.ret # Null)
        => res.ret.v \in DestinationsOf(res.a2, res.a1)
    /\ (fn.live /\ res.op = "transitionFn" /\ res.err = NoError /\ res.ret # Null)
        => res.ret.v \in DestinationsOf(res.a2, res.a1)

(***************************************************************************)
(* C26                                                                     *)
(***************************************************************************)
\* What a call returned or threw.
Answer(t) == [ret |-> t.ret, kind |-> t.err.kind]

\* C26: the two classes accept the same configurations; on a stateful machine
\* with current state c, transition(a) returns or throws what the stateless
\* transition(c, a) of a machine of the same configuration does; and process
\* of one class has the result, or the error kind, and leaves the current state
\* that process of the other class does on the same input.
C26_VariantsAgree ==
    /\ fsm.live
        => /\ constructorFn(config).live
           /\ \A a \in SymbolArgs :
                Answer(transition(fsm, a))
                    = Answer(transitionFn(constructorFn(config), fsm.currentState, a))
    /\ fn.live => constructor(config).live
    /\ (fsm.live /\ res.op = "transition")
        => Answer(res) = Answer(transitionFn(constructorFn(config), res.a2, res.a1))
    /\ (fsm.live /\ res.op = "process")
        => LET p == processFn(constructorFn(config), res.a1)
           IN  Outcome(res) = Outcome(p) /\ fsm.currentState = p.o.currentState
    /\ (fn.live /\ res.op = "processFn")
        => LET p == process(constructor(config), res.a1)
           IN  Outcome(res) = Outcome(p) /\ fn.currentState = p.o.currentState

\* The stateful transition moved a machine that was off its initial state, to
\* the state the stateless transition returns.
C26_Witness ==
    /\ fsm.live
    /\ res.op = "transition"
    /\ res.a2 # config.initialState
    /\ res.ret # Null
    /\ res.ret = transitionFn(constructorFn(config), res.a2, res.a1).ret

(***************************************************************************)
(* C27                                                                     *)
(***************************************************************************)
\* C27: process(input) ends on every input, on machines with cycles too: when
\* it returns it has made exactly one transition per character of input; when
\* it throws it has made one transition per character before the failing one,
\* fewer than the length of input, and the error is that of the character it
\* stopped at, undeclared or without transition from the state reached.
C27_OneTransitionPerCharacter ==
    IsProcess
    => LET k == Len(res.trace)
       IN  IF res.err = NoError
           THEN k = Len(res.a1) + 1
           ELSE /\ k <= Len(res.a1)
                /\ \/ /\ ~DeclaredSymbol(CharAt(res.a1, k))
                      /\ res.err = InvalidSymbolError(CharAt(res.a1, k))
                   \/ /\ DeclaredSymbol(CharAt(res.a1, k))
                      /\ res.err = NoTransitionError(res.trace[k], CharAt(res.a1, k))

\* process returned after going round a cycle of the transition graph: a state
\* was passed twice.
C27_Witness ==
    /\ IsProcess
    /\ res.err = NoError
    /\ Len(res.trace) = Len(res.a1) + 1
    /\ \E i, j \in 1..Len(res.trace) : i < j /\ res.trace[i] = res.trace[j]

====
